---- MODULE Spec2Model ----
(***************************************************************************)
(* A model of cme_event_contracts.py: the two report extractors, the row   *)
(* reconciler write_to_google_sheet (sequentially and under two concurrent *)
(* invocations) and the pipeline run_scraper / main.                       *)
(*                                                                         *)
(* Text is modelled as sequences of one-character strings, so that strip,  *)
(* startswith, split, replace and int are computed character by character. *)
(***************************************************************************)
EXTENDS Integers, Sequences, FiniteSets, TLC

VARIABLES
    \* ---- extractors (extract_section73_volume / extract_swaps_volume)
    kind,           \* which extractor runs: "section73" or "swaps"
    doc,            \* the opened PDF: a sequence of pages, a page a sequence of lines
    xpc,            \* "open", "scan", "returned"
    xpage,          \* index of the page the loop is at
    xline,          \* index of the line the inner loop is at
    total_volume,   \* the running total
    xresult,        \* the value returned
    xfailed,        \* an exception reached the outer except clause
    \* ---- the external store (the sheet), as values().get returns it
    store,          \* sequence of rows, a row a sequence of three cells
    store0,         \* the store before the first call
    \* ---- sequential calls of write_to_google_sheet
    calls,          \* number of calls made
    last,           \* the last call: its arguments, result and API calls
    headerWrites,   \* number of header updates that succeeded
    written,        \* date key -> the row of its latest successful write
    writes,         \* date key -> number of successful writes
    \* ---- two concurrent invocations of write_to_google_sheet
    rpc,            \* invocation -> the API call it is about to make
    rargs,          \* invocation -> its (date_str, volumes)
    rdates,         \* invocation -> its existing_dates
    rbranch,        \* invocation -> "update" / "append" once it wrote its row
    \* ---- one run of main / run_scraper
    pc,             \* the stage run_scraper is at
    err,            \* the exception raised, "none" if none
    dl,             \* document -> what download_pdf returned
    fetches,        \* document -> number of GET requests made for it
    credCalls,      \* calls of get_google_credentials
    apilog,         \* the Sheets API calls issued
    notifications,  \* the outcome of each call of send_failure_notification
    exit_status,    \* the process's exit status
    page1,          \* what the first page of the Section 73 PDF gave
    report_date,    \* the date key
    volumes         \* (section73_volume, swaps_volume)

xvars == <<kind, doc, xpc, xpage, xline, total_volume, xresult, xfailed>>
stvars == <<store, store0>>
svars == <<calls, last, headerWrites, written, writes>>
rvars == <<rpc, rargs, rdates, rbranch>>
mvars == <<pc, err, dl, fetches, credCalls, apilog, notifications, exit_status,
           page1, report_date, volumes>>

vars == <<xvars, stvars, svars, rvars, mvars>>

-----------------------------------------------------------------------------
\* Bounds of the model.

\* pages of a document
MaxPages == 3
\* lines of a document, over all its pages
MaxLines == 2
\* data rows of the store before the first call
MaxInitRows == 2
\* sequential calls of write_to_google_sheet
MaxCalls == 2

-----------------------------------------------------------------------------
\* Python string operations, on sequences of characters.

Digits == {"0", "1", "2", "3", "4", "5", "6", "7", "8", "9"}

DigitVal(c) ==
    CASE c = "0" -> 0 [] c = "1" -> 1 [] c = "2" -> 2 [] c = "3" -> 3
      [] c = "4" -> 4 [] c = "5" -> 5 [] c = "6" -> 6 [] c = "7" -> 7
      [] c = "8" -> 8 [] c = "9" -> 9

IsSpace(c) == c \in {" ", "\t"}

RECURSIVE LStrip(_)
LStrip(s) == IF s # <<>> /\ IsSpace(Head(s)) THEN LStrip(Tail(s)) ELSE s

RECURSIVE RStrip(_)
RStrip(s) ==
    IF s # <<>> /\ IsSpace(s[Len(s)]) THEN RStrip(SubSeq(s, 1, Len(s) - 1)) ELSE s

\* str.strip()
Strip(s) == RStrip(LStrip(s))

\* str.startswith(p)
StartsWith(s, p) == Len(s) >= Len(p) /\ SubSeq(s, 1, Len(p)) = p

\* p in s
Contains(s, p) ==
    \E i \in 1..(Len(s) - Len(p) + 1) : SubSeq(s, i, i + Len(p) - 1) = p

RECURSIVE SplitRec(_, _, _)
SplitRec(s, cur, acc) ==
    IF s = <<>>
    THEN IF cur = <<>> THEN acc ELSE Append(acc, cur)
    ELSE IF IsSpace(Head(s))
         THEN SplitRec(Tail(s), <<>>, IF cur = <<>> THEN acc ELSE Append(acc, cur))
         ELSE SplitRec(Tail(s), Append(cur, Head(s)), acc)

\* str.split(): the maximal runs of non-whitespace characters
Split(s) == SplitRec(s, <<>>, <<>>)

\* str.replace(',', '')
RemoveCommas(s) == SelectSeq(s, LAMBDA c : c # ",")

\* int(s) does not raise ValueError: an optional sign, then digits, where a
\* single underscore may stand between two digits.
IsInt(s) ==
    LET body == IF s # <<>> /\ Head(s) \in {"+", "-"} THEN Tail(s) ELSE s
    IN  /\ body # <<>>
        /\ \A i \in 1..Len(body) :
              \/ body[i] \in Digits
              \/ /\ body[i] = "_"
                 /\ i > 1
                 /\ i < Len(body)
                 /\ body[i - 1] \in Digits
                 /\ body[i + 1] \in Digits

RECURSIVE DigitsVal(_, _)
DigitsVal(s, acc) ==
    IF s = <<>> THEN acc
    ELSE IF Head(s) = "_" THEN DigitsVal(Tail(s), acc)
         ELSE DigitsVal(Tail(s), 10 * acc + DigitVal(Head(s)))

\* int(s), for s with IsInt(s)
IntVal(s) ==
    IF Head(s) = "-" THEN 0 - DigitsVal(Tail(s), 0)
    ELSE IF Head(s) = "+" THEN DigitsVal(Tail(s), 0)
         ELSE DigitsVal(s, 0)

-----------------------------------------------------------------------------
\* The lines the documents of the model are made of.

SP == <<" ">>
TOTAL == <<"T", "O", "T", "A", "L">>
Totals == <<"T", "o", "t", "a", "l", "s">>
byProducts == <<"b", "y", " ", "P", "r", "o", "d", "u", "c", "t", "s">>

\* "TOTAL 100 50"
LineTotal100 == TOTAL \o SP \o <<"1", "0", "0">> \o SP \o <<"5", "0">>
\* "TOTAL 200 80"
LineTotal200 == TOTAL \o SP \o <<"2", "0", "0">> \o SP \o <<"8", "0">>
\* "  TOTAL 1,234 5 "
LineTotalComma == SP \o SP \o TOTAL \o SP \o <<"1", ",", "2", "3", "4">> \o SP \o <<"5">> \o SP
\* "TOTAL"
LineTotalAlone == TOTAL
\* "TOTAL n/a 7"
LineTotalNoNumber == TOTAL \o SP \o <<"n", "/", "a">> \o SP \o <<"7">>
\* "TOTAL -5 3"
LineTotalNegative == TOTAL \o SP \o <<"-", "5">> \o SP \o <<"3">>
\* "SUBTOTAL 9 9"
LineSubtotal == <<"S", "U", "B">> \o TOTAL \o SP \o <<"9">> \o SP \o <<"9">>

\* "Totals 735,540 1,829,470"
LineTotals735540 ==
    Totals \o SP \o <<"7", "3", "5", ",", "5", "4", "0">> \o SP
           \o <<"1", ",", "8", "2", "9", ",", "4", "7", "0">>
\* "Totals by Products 10 20"
LineTotalsByProducts == Totals \o SP \o byProducts \o SP \o <<"1", "0">> \o SP \o <<"2", "0">>
\* "Totals 10 by Products"
LineTotalsThenByProducts == Totals \o SP \o <<"1", "0">> \o SP \o byProducts
\* " Totals 25 9"
LineTotals25 == SP \o Totals \o SP \o <<"2", "5">> \o SP \o <<"9">>
\* "Totals"
LineTotalsAlone == Totals
\* "Totals -3 1"
LineTotalsNegative == Totals \o SP \o <<"-", "3">> \o SP \o <<"1">>

Section73Lines ==
    {LineTotal100, LineTotal200, LineTotalComma, LineTotalAlone,
     LineTotalNoNumber, LineTotalNegative, LineSubtotal}

SwapsLines ==
    {LineTotals735540, LineTotalsByProducts, LineTotalsThenByProducts,
     LineTotals25, LineTotalsAlone, LineTotalsNegative, LineTotal100}

LinesOf(k) == IF k = "section73" THEN Section73Lines ELSE SwapsLines

\* A page's text split at '\n'; the empty sequence is a page whose
\* extract_text() is falsy (no extractable text).
PagesOf(k, n) == UNION {[1..m -> LinesOf(k)] : m \in 0..n}

RECURSIVE DocsOf(_, _, _)
DocsOf(k, p, n) ==
    IF p = 0 THEN {<<>>}
    ELSE {<<>>} \cup
         UNION {{<<pg>> \o d : d \in DocsOf(k, p - 1, n - Len(pg))} : pg \in PagesOf(k, n)}

-----------------------------------------------------------------------------
\* The external store and the Sheets API calls write_to_google_sheet makes.

Dates == {"2026-01-15", "2026-01-16", "2026-01-19"}

\* (section73_volume, swaps_volume) pairs the calls are made with
VolumePairs == {<<0, 0>>, <<300, 735540>>}

HEADER_ROW == <<"Date", "Event Contracts (PG 73)", "Event Contracts (Swaps)">>

\* a first row that has 'Date' in column A and is not the header
OtherTitleRow == <<"Date", "Volume", "Swaps">>

\* a cell as values().get returns it: the formatted value, a string
Cell(v) == ToString(v)

\* body={'values': [[date_str, section73_volume, swaps_volume]]}
SheetRow(date_str, section73_volume, swaps_volume) ==
    <<date_str, Cell(section73_volume), Cell(swaps_volume)>>

IsDataRow(row) == row[1] \in Dates

\* values().get(range='A1:C1').execute().get('values', [])
GetA1C1(st) == IF st = <<>> THEN <<>> ELSE <<st[1]>>

\* values().get(range='A:A').execute().get('values', [])
GetColumnA(st) == [i \in 1..Len(st) |-> IF st[i][1] = "" THEN <<>> ELSE <<st[i][1]>>]

\* values().update(range='A<idx>:C<idx>', body={'values': [row]})
UpdateRange(st, idx, row) ==
    IF idx <= Len(st) THEN [st EXCEPT ![idx] = row] ELSE Append(st, row)

\* values().append(range='A:C', insertDataOption='INSERT_ROWS', body={'values': [row]})
AppendRow(st, row) == Append(st, row)

\* faulty variant: only column A of the first row is compared with the header
NeedsHeader_FirstCellOnly(existing_values) ==
    existing_values = <<>> \/ existing_values[1][1] # HEADER_ROW[1]

\* line 167
NeedsHeader(existing_values) ==
    existing_values = <<>> \/ existing_values[1] # HEADER_ROW

\* line 182
ExistingDates(values) ==
    [i \in 1..Len(values) |-> IF values[i] # <<>> THEN values[i][1] ELSE ""]

\* faulty variant: the date is never found, every write appends
DatePresent_Never(existing_dates, date_str) == FALSE

\* line 184: date_str in existing_dates
DatePresent(existing_dates, date_str) ==
    \E i \in 1..Len(existing_dates) : existing_dates[i] = date_str

\* list.index: the 0-based position of the first occurrence
ListIndex(list, x) ==
    (CHOOSE i \in 1..Len(list) :
        list[i] = x /\ \A j \in 1..(i - 1) : list[j] # x) - 1

\* faulty variant: the 0-based index is used as the row number
RowIdx_ZeroBased(existing_dates, date_str) == ListIndex(existing_dates, date_str)

\* line 186
RowIdx(existing_dates, date_str) == ListIndex(existing_dates, date_str) + 1

\* The API call at which a call of write_to_google_sheet raises (a failure
\* named for a call that is not made does not happen).
FailPoints == {"none", "creds", "get_header", "update_header", "get_dates", "write_row"}

\* write_to_google_sheet, lines 153-213, run without interleaving on store st:
\* the store it leaves, what it returns, and the API calls it issued.
write_to_google_sheet(st, date_str, section73_volume, swaps_volume, failAt) ==
    LET row == SheetRow(date_str, section73_volume, swaps_volume)
        existing_values == GetA1C1(st)
        header == NeedsHeader(existing_values)
        st1 == IF header THEN UpdateRange(st, 1, HEADER_ROW) ELSE st
        existing_dates == ExistingDates(GetColumnA(st1))
        present == DatePresent(existing_dates, date_str)
        st2 == IF present
               THEN UpdateRange(st1, RowIdx(existing_dates, date_str), row)
               ELSE AppendRow(st1, row)
        logHeader == IF header THEN <<"get A1:C1", "update A1:C1">> ELSE <<"get A1:C1">>
        Out(s, ok, log, read, issued, wrote, branch) ==
            [store |-> s, ok |-> ok, log |-> log, existing_values |-> read,
             headerIssued |-> issued, headerWritten |-> wrote, branch |-> branch]
    IN  IF failAt = "creds"
        THEN Out(st, FALSE, <<>>, <<>>, FALSE, FALSE, "none")
        ELSE IF failAt = "get_header"
        THEN Out(st, FALSE, <<"get A1:C1">>, <<>>, FALSE, FALSE, "none")
        ELSE IF failAt = "update_header" /\ header
        THEN Out(st, FALSE, logHeader, existing_values, TRUE, FALSE, "none")
        ELSE IF failAt = "get_dates"
        THEN Out(st1, FALSE, logHeader \o <<"get A:A">>, existing_values,
                 header, header, "none")
        ELSE IF failAt = "write_row"
        THEN Out(st1, FALSE,
                 logHeader \o <<"get A:A", IF present THEN "update row" ELSE "append">>,
                 existing_values, header, header, "none")
        ELSE Out(st2, TRUE,
                 logHeader \o <<"get A:A", IF present THEN "update row" ELSE "append">>,
                 existing_values, header, header,
                 IF present THEN "update" ELSE "append")

\* The stores a first call may find: nothing, the header or another title
\* row in row 1, then data rows with distinct date keys.
RECURSIVE DataRowSeqs(_, _)
DataRowSeqs(n, used) ==
    IF n = 0 THEN {<<>>}
    ELSE {<<>>} \cup
         UNION {{<<SheetRow(d, 7, 7)>> \o rest : rest \in DataRowSeqs(n - 1, used \cup {d})} :
                   d \in Dates \ used}

InitialStores(n) ==
    {first \o rows : first \in {<<>>, <<HEADER_ROW>>, <<OtherTitleRow>>},
                     rows \in DataRowSeqs(n, {})}

RowsFor(st, d) == {i \in 1..Len(st) : st[i][1] = d}

\* the values of the variables of the parts a specification does not run
NoCall ==
    [date |-> "", row |-> <<>>, ok |-> FALSE, log |-> <<>>, existing_values |-> <<>>,
     headerIssued |-> FALSE, branch |-> "none"]

Invocations == {1, 2}

ExtractIdle ==
    /\ kind = "none"
    /\ doc = <<>>
    /\ xpc = "idle"
    /\ xpage = 1
    /\ xline = 1
    /\ total_volume = 0
    /\ xresult = 0
    /\ xfailed = FALSE

StoreIdle == store = <<>> /\ store0 = <<>>

SheetIdle ==
    /\ calls = 0
    /\ last = NoCall
    /\ headerWrites = 0
    /\ written = [d \in Dates |-> <<>>]
    /\ writes = [d \in Dates |-> 0]

RaceIdle ==
    /\ rpc = [p \in Invocations |-> "idle"]
    /\ rargs = [p \in Invocations |-> <<>>]
    /\ rdates = [p \in Invocations |-> <<>>]
    /\ rbranch = [p \in Invocations |-> "none"]

NoPage == [kind |-> "unread", month |-> "", day |-> "", year |-> ""]

MainIdle ==
    /\ pc = "idle"
    /\ err = "none"
    /\ dl = [section73 |-> "none", swaps |-> "none"]
    /\ fetches = [section73 |-> 0, swaps |-> 0]
    /\ credCalls = 0
    /\ apilog = <<>>
    /\ notifications = <<>>
    /\ exit_status = 0
    /\ page1 = NoPage
    /\ report_date = ""
    /\ volumes = <<0, 0>>

-----------------------------------------------------------------------------
\* extract_section73_volume and extract_swaps_volume.

\* faulty variant: the commas of the second token are not removed before int()
Section73LineVolume_KeepsCommas(line) ==
    IF StartsWith(Strip(line), TOTAL)
    THEN LET parts == Split(line)
         IN  IF Len(parts) >= 2 /\ IsInt(parts[2]) THEN IntVal(parts[2]) ELSE 0
    ELSE 0

\* lines 58-66: what one line adds to total_volume
Section73LineVolume(line) ==
    IF StartsWith(Strip(line), TOTAL)
    THEN LET parts == Split(line)
         IN  IF Len(parts) >= 2 /\ IsInt(RemoveCommas(parts[2]))
             THEN IntVal(RemoveCommas(parts[2]))
             ELSE 0
    ELSE 0

\* faulty variant: the 'by Products' test is missing
SwapsLineMatches_NoExclusion(line) == StartsWith(Strip(line), Totals)

\* line 91
SwapsLineMatches(line) ==
    StartsWith(Strip(line), Totals) /\ ~Contains(line, byProducts)

\* lines 91-100: what one line adds to total_volume
SwapsLineVolume(line) ==
    IF SwapsLineMatches(line)
    THEN LET parts == Split(line)
         IN  IF Len(parts) >= 2 /\ IsInt(RemoveCommas(parts[2]))
             THEN IntVal(RemoveCommas(parts[2]))
             ELSE 0
    ELSE 0

LineVolume(k, line) ==
    IF k = "section73" THEN Section73LineVolume(line) ELSE SwapsLineVolume(line)

ExtractStart ==
    /\ kind \in {"section73", "swaps"}
    /\ doc \in DocsOf(kind, MaxPages, MaxLines)
    /\ xpc = "open"
    /\ xpage = 1
    /\ xline = 1
    /\ total_volume = 0
    /\ xresult = 0
    /\ xfailed = FALSE

\* pdfplumber.open succeeds
ExtractOpen ==
    /\ xpc = "open"
    /\ xpc' = "scan"
    /\ UNCHANGED <<kind, doc, xpage, xline, total_volume, xresult, xfailed>>
    /\ UNCHANGED <<stvars, svars, rvars, mvars>>

\* pdfplumber.open or a page's extract_text raises: the outer except clause
\* returns 0, whatever total_volume has reached
ExtractRaise ==
    /\ xpc \in {"open", "scan"}
    /\ xpc' = "returned"
    /\ xresult' = 0
    /\ xfailed' = TRUE
    /\ UNCHANGED <<kind, doc, xpage, xline, total_volume>>
    /\ UNCHANGED <<stvars, svars, rvars, mvars>>

\* a page whose text is falsy: "if text:" / "if not text: continue"
ExtractSkipPage ==
    /\ xpc = "scan"
    /\ xpage <= Len(doc)
    /\ doc[xpage] = <<>>
    /\ xpage' = xpage + 1
    /\ xline' = 1
    /\ UNCHANGED <<kind, doc, xpc, total_volume, xresult, xfailed>>
    /\ UNCHANGED <<stvars, svars, rvars, mvars>>

\* one iteration of "for line in text.split('\n')"
ExtractLine ==
    /\ xpc = "scan"
    /\ xpage <= Len(doc)
    /\ doc[xpage] # <<>>
    /\ total_volume' = total_volume + LineVolume(kind, doc[xpage][xline])
    /\ IF xline < Len(doc[xpage])
       THEN xline' = xline + 1 /\ xpage' = xpage
       ELSE xline' = 1 /\ xpage' = xpage + 1
    /\ UNCHANGED <<kind, doc, xpc, xresult, xfailed>>
    /\ UNCHANGED <<stvars, svars, rvars, mvars>>

\* "return total_volume"
ExtractReturn ==
    /\ xpc = "scan"
    /\ xpage > Len(doc)
    /\ xpc' = "returned"
    /\ xresult' = total_volume
    /\ UNCHANGED <<kind, doc, xpage, xline, total_volume, xfailed>>
    /\ UNCHANGED <<stvars, svars, rvars, mvars>>

ExtractNext ==
    \/ ExtractOpen
    \/ ExtractRaise
    \/ ExtractSkipPage
    \/ ExtractLine
    \/ ExtractReturn

ExtractInit == ExtractStart /\ StoreIdle /\ SheetIdle /\ RaceIdle /\ MainIdle

SpecExtract == ExtractInit /\ [][ExtractNext]_vars

-----------------------------------------------------------------------------
\* Claims about the extractors, checked under SpecExtract.

RECURSIVE AllLines(_)
AllLines(d) == IF d = <<>> THEN <<>> ELSE Head(d) \o AllLines(Tail(d))

SecondToken(line) == RemoveCommas(Split(line)[2])

HasIntSecondToken(line) == Len(Split(line)) >= 2 /\ IsInt(SecondToken(line))

\* the sum of the second tokens of lines that all have an integer one
RECURSIVE SumSecondTokens(_)
SumSecondTokens(lines) ==
    IF lines = <<>> THEN 0
    ELSE IntVal(SecondToken(Head(lines))) + SumSecondTokens(Tail(lines))

Returned(k) == xpc = "returned" /\ kind = k /\ ~xfailed

\* C5: the running total of either extractor is non-negative at every step
\* and no step of the loop decreases it.
C5_TotalNeverDecreases ==
    [][total_volume' >= total_volume /\ total_volume' >= 0]_vars

\* C6: extract_section73_volume returns the sum of the integer second tokens
\* (commas removed) of all lines, over all pages, whose trimmed text starts
\* with TOTAL and that have at least two tokens; every other line and every
\* text-less page adds nothing; 'TOTAL 100 50', 'TOTAL 200 80' yield 300.
C6_Counts(line) == StartsWith(Strip(line), TOTAL) /\ HasIntSecondToken(line)

C6_Section73Sum ==
    Returned("section73") =>
        /\ xresult = SumSecondTokens(SelectSeq(AllLines(doc), C6_Counts))
        /\ (\A i \in 1..Len(AllLines(doc)) : ~C6_Counts(AllLines(doc)[i])) => xresult = 0
        /\ doc = <<<<LineTotal100, LineTotal200>>>> => xresult = 300

\* two TOTAL lines on different pages, a text-less page between them, and a
\* thousands separator: 100 + 1234
C6_Witness ==
    /\ Returned("section73")
    /\ doc = <<<<LineTotal100>>, <<>>, <<LineTotalComma>>>>
    /\ xresult = 1334

\* C7: extract_swaps_volume returns the sum of the parsed second tokens of
\* exactly the lines that start with Totals and do not contain 'by Products',
\* however many there are; 'Totals 735,540 1,829,470' with the distractor
\* 'Totals by Products 10 20' yields 735540.
C7_Counts(line) ==
    /\ StartsWith(Strip(line), Totals)
    /\ ~Contains(line, byProducts)
    /\ HasIntSecondToken(line)

C7_SwapsSum ==
    Returned("swaps") =>
        /\ xresult = SumSecondTokens(SelectSeq(AllLines(doc), C7_Counts))
        /\ doc = <<<<LineTotals735540, LineTotalsByProducts>>>> => xresult = 735540

\* a line that starts with Totals, has an integer second token and contains
\* 'by Products' was scanned and added nothing
C7_Witness ==
    /\ Returned("swaps")
    /\ doc = <<<<LineTotalsThenByProducts>>, <<LineTotals25>>>>
    /\ xresult = 25

-----------------------------------------------------------------------------
\* Sequential calls of write_to_google_sheet (one reconciler run after another).

SheetInit ==
    /\ store \in InitialStores(MaxInitRows)
    /\ store0 = store
    /\ SheetIdle
    /\ ExtractIdle
    /\ RaceIdle
    /\ MainIdle

\* one whole call, lines 153-213
WriteCall(date_str, vols, failAt) ==
    LET r == write_to_google_sheet(store, date_str, vols[1], vols[2], failAt)
        row == SheetRow(date_str, vols[1], vols[2])
    IN  /\ calls < MaxCalls
        /\ store' = r.store
        /\ calls' = calls + 1
        /\ last' = [date |-> date_str, row |-> row, ok |-> r.ok, log |-> r.log,
                    existing_values |-> r.existing_values,
                    headerIssued |-> r.headerIssued, branch |-> r.branch]
        /\ headerWrites' = IF r.headerWritten THEN headerWrites + 1 ELSE headerWrites
        /\ written' = IF r.ok THEN [written EXCEPT ![date_str] = row] ELSE written
        /\ writes' = IF r.ok THEN [writes EXCEPT ![date_str] = @ + 1] ELSE writes
        /\ UNCHANGED <<store0, xvars, rvars, mvars>>

SheetNext ==
    \E date_str \in Dates, vols \in VolumePairs, failAt \in FailPoints :
        WriteCall(date_str, vols, failAt)

SpecSheet == SheetInit /\ [][SheetNext]_vars

\* C1: from a store with at most one row per date key, sequential calls keep
\* at most one row per date key, and the row of every date written
\* successfully holds the values of the latest successful write for it.
C1_Upsert ==
    \A d \in Dates :
        /\ Cardinality(RowsFor(store, d)) <= 1
        /\ writes[d] > 0 =>
              \E i \in 1..Len(store) : RowsFor(store, d) = {i} /\ store[i] = written[d]

\* a date written a second time, by the update branch, with one row for it
C1_Witness ==
    \E d \in Dates :
        /\ writes[d] >= 2
        /\ last.ok /\ last.date = d /\ last.branch = "update"
        /\ Cardinality(RowsFor(store, d)) = 1

HeaderRows(st) == {i \in 1..Len(st) : st[i] = HEADER_ROW}

\* C2: a call that reads the first row writes the header if and only if that
\* row is not exactly the header; over all calls the header is written at
\* most once, exactly once when a call succeeded on a store that lacked it,
\* never on a store that had it, and the store has at most one header row.
C2_HeaderOnce ==
    /\ last.log # <<>> /\ last.log # <<"get A1:C1">> =>
          (last.headerIssued <=> last.existing_values # <<HEADER_ROW>>)
    /\ last.headerIssued <=> \E i \in 1..Len(last.log) : last.log[i] = "update A1:C1"
    /\ headerWrites <= 1
    /\ Cardinality(HeaderRows(store)) <= 1
    /\ HeaderRows(store0) # {} => headerWrites = 0
    /\ (HeaderRows(store0) = {} /\ \E d \in Dates : writes[d] > 0) =>
          headerWrites = 1 /\ HeaderRows(store) = {1}

\* a second successful call found the header the first one had written
C2_Witness ==
    /\ HeaderRows(store0) = {}
    /\ calls = 2
    /\ \E d \in Dates : writes[d] = 2
    /\ last.ok /\ ~last.headerIssued /\ last.existing_values = <<HEADER_ROW>>
    /\ headerWrites = 1

\* a step that is a successful call
SuccessfulCall == calls' = calls + 1 /\ last'.ok

\* C10 as stated: a successful call for d leaves every data row whose date
\* key differs from d unchanged in content and position, also a data row in
\* row 1.
C10_AllOtherRowsKept ==
    [][SuccessfulCall =>
          \A i \in 1..Len(store) :
              (IsDataRow(store[i]) /\ store[i][1] # last'.date) =>
                  (i <= Len(store') /\ store'[i] = store[i])]_vars

\* C10 amended: a successful call for d leaves row 1 holding the header
\* (overwriting whatever row 1 held when it was not the header), changes at
\* most one row below row 1, which then held date key d and now holds the
\* written row, and otherwise appends that one row at the end.
C10_RowsBelowHeaderKept ==
    [][SuccessfulCall =>
          /\ store'[1] = HEADER_ROW
          /\ store # <<>> /\ store[1] = HEADER_ROW => store'[1] = store[1]
          /\ \A i \in 2..Len(store) :
                \/ store'[i] = store[i]
                \/ store[i][1] = last'.date /\ store'[i] = last'.row
          /\ \/ Len(store') = Len(store) /\ store # <<>>
             \/ /\ Len(store') = (IF store = <<>> THEN 1 ELSE Len(store)) + 1
                /\ store'[Len(store')] = last'.row
                /\ \A i \in 2..Len(store) : store'[i] = store[i]]_vars

\* a call for another date found a data row in row 1: the header replaced
\* it and the row below is where it was
C10_Witness ==
    /\ calls = 1 /\ last.ok
    /\ Len(store0) >= 2
    /\ IsDataRow(store0[1]) /\ store0[1][1] # last.date
    /\ store0[2][1] # last.date
    /\ store[1] = HEADER_ROW
    /\ store[2] = store0[2]
    /\ store[Len(store)] = last.row

-----------------------------------------------------------------------------
\* Two invocations of write_to_google_sheet running at once against the same
\* store: every API call is one step, and nothing orders the steps of one
\* invocation against those of the other.

RaceInit ==
    /\ store \in InitialStores(MaxInitRows)
    /\ store0 = store
    /\ rpc = [p \in Invocations |-> "creds"]
    /\ rargs \in [Invocations -> Dates \X VolumePairs]
    /\ rdates = [p \in Invocations |-> <<>>]
    /\ rbranch = [p \in Invocations |-> "none"]
    /\ SheetIdle
    /\ ExtractIdle
    /\ MainIdle

\* lines 156-158
RaceCredentials(p) ==
    /\ rpc[p] = "creds"
    /\ rpc' = [rpc EXCEPT ![p] = "get_header"]
    /\ UNCHANGED <<rargs, rdates, rbranch, stvars, svars, xvars, mvars>>

\* lines 161-167
RaceGetHeader(p) ==
    /\ rpc[p] = "get_header"
    /\ rpc' = [rpc EXCEPT ![p] =
                  IF NeedsHeader(GetA1C1(store)) THEN "update_header" ELSE "get_dates"]
    /\ UNCHANGED <<rargs, rdates, rbranch, stvars, svars, xvars, mvars>>

\* lines 169-175
RaceUpdateHeader(p) ==
    /\ rpc[p] = "update_header"
    /\ store' = UpdateRange(store, 1, HEADER_ROW)
    /\ rpc' = [rpc EXCEPT ![p] = "get_dates"]
    /\ UNCHANGED <<rargs, rdates, rbranch, store0, svars, xvars, mvars>>

\* lines 178-182
RaceGetDates(p) ==
    /\ rpc[p] = "get_dates"
    /\ rdates' = [rdates EXCEPT ![p] = ExistingDates(GetColumnA(store))]
    /\ rpc' = [rpc EXCEPT ![p] = "write_row"]
    /\ UNCHANGED <<rargs, rbranch, stvars, svars, xvars, mvars>>

\* lines 184-203
RaceWriteRow(p) ==
    LET date_str == rargs[p][1]
        row == SheetRow(date_str, rargs[p][2][1], rargs[p][2][2])
        present == DatePresent(rdates[p], date_str)
    IN  /\ rpc[p] = "write_row"
        /\ store' = IF present
                    THEN UpdateRange(store, RowIdx(rdates[p], date_str), row)
                    ELSE AppendRow(store, row)
        /\ rbranch' = [rbranch EXCEPT ![p] = IF present THEN "update" ELSE "append"]
        /\ rpc' = [rpc EXCEPT ![p] = "done"]
        /\ UNCHANGED <<rargs, rdates, store0, svars, xvars, mvars>>

\* lines 208-213: the call the invocation is about to make raises
RaceFail(p) ==
    /\ rpc[p] \in {"creds", "get_header", "update_header", "get_dates", "write_row"}
    /\ rpc' = [rpc EXCEPT ![p] = "failed"]
    /\ UNCHANGED <<rargs, rdates, rbranch, stvars, svars, xvars, mvars>>

RaceNext ==
    \E p \in Invocations :
        \/ RaceCredentials(p)
        \/ RaceGetHeader(p)
        \/ RaceUpdateHeader(p)
        \/ RaceGetDates(p)
        \/ RaceWriteRow(p)
        \/ RaceFail(p)

SpecRace == RaceInit /\ [][RaceNext]_vars

\* C8: with two concurrent invocations a date key can come to have two
\* rows, and only in this way: both invocations target that date, each read
\* its existing_dates before the other wrote, so that neither view holds the
\* date, and both took the append branch.
C8_DuplicateOnlyByRace ==
    \A d \in Dates :
        Cardinality(RowsFor(store, d)) >= 2 =>
            /\ Cardinality(RowsFor(store, d)) = 2
            /\ \A p \in Invocations :
                  /\ rargs[p][1] = d
                  /\ rbranch[p] = "append"
                  /\ \A i \in 1..Len(rdates[p]) : rdates[p][i] # d

\* both invocations finished and their date key, absent before, has two rows
C8_Witness ==
    \E d \in Dates :
        /\ RowsFor(store0, d) = {}
        /\ \A p \in Invocations : rpc[p] = "done" /\ rargs[p][1] = d
        /\ Cardinality(RowsFor(store, d)) = 2

-----------------------------------------------------------------------------
\* One run of the process: main, run_scraper and the failure handler.

\* datetime.now().strftime('%Y-%m-%d')
Today == "2026-01-19"

\* month_map.get(match.group(2), '01'), lines 276-279
MonthNumber(abbr) ==
    CASE abbr = "Jan" -> "01" [] abbr = "Feb" -> "02" [] abbr = "Mar" -> "03"
      [] abbr = "Apr" -> "04" [] abbr = "May" -> "05" [] abbr = "Jun" -> "06"
      [] abbr = "Jul" -> "07" [] abbr = "Aug" -> "08" [] abbr = "Sep" -> "09"
      [] abbr = "Oct" -> "10" [] abbr = "Nov" -> "11" [] abbr = "Dec" -> "12"
      [] OTHER -> "01"

\* str.zfill(2), line 280
ZFill2(s) == IF Len(s) < 2 THEN "0" \o s ELSE s

\* What pdf.pages[0].extract_text() and the search of line 274 can give. A
\* first page without extractable text gives None or '', depending on the
\* pdfplumber release installed; "open_error" is a file pdfplumber.open
\* rejects and "no_pages" a PDF without pages.
FirstPages ==
    {[kind |-> k, month |-> "", day |-> "", year |-> ""] :
        k \in {"open_error", "no_pages", "None", "empty", "nomatch"}}
    \cup {[kind |-> "match", month |-> m, day |-> d, year |-> "2026"] :
             m \in {"Jan", "Sept"}, d \in {"5", "16"}}

\* lines 271-288: the exception raised, or the date key
ResolveDate(page) ==
    IF page.kind = "open_error" THEN [raised |-> "PDFSyntaxError", date |-> ""]
    ELSE IF page.kind = "no_pages" THEN [raised |-> "IndexError", date |-> ""]
    ELSE IF page.kind = "None" THEN [raised |-> "TypeError", date |-> ""]
    ELSE IF page.kind = "match"
    THEN [raised |-> "none",
          date |-> page.year \o "-" \o MonthNumber(page.month) \o "-" \o ZFill2(page.day)]
    ELSE [raised |-> "none", date |-> Today]

\* get_google_credentials, lines 109-150: credentials returned, sys.exit(1)
\* for none found or a failed refresh, or an exception while loading them
CredentialOutcomes == {"ok", "missing", "refresh_failed", "invalid"}

CallsSysExit(cred) == cred \in {"missing", "refresh_failed"}

\* faulty variant: a failed download does not stop the run
AfterDownload_IgnoresFailure(ok, next) == next

\* lines 260-263: "if not download_pdf(...): raise RuntimeError"
AfterDownload(ok, next) == IF ok THEN next ELSE "handler"

MainInit ==
    /\ store \in InitialStores(MaxInitRows)
    /\ store0 = store
    /\ pc = "start"
    /\ err = "none"
    /\ dl = [section73 |-> "none", swaps |-> "none"]
    /\ fetches = [section73 |-> 0, swaps |-> 0]
    /\ credCalls = 0
    /\ apilog = <<>>
    /\ notifications = <<>>
    /\ exit_status = 0
    /\ page1 = NoPage
    /\ report_date = ""
    /\ volumes = <<0, 0>>
    /\ SheetIdle
    /\ ExtractIdle
    /\ RaceIdle

\* lines 244-249
MainStart ==
    /\ pc = "start"
    /\ \E spreadsheet_id \in {"", "sheet-id"} :
          IF spreadsheet_id = ""
          THEN pc' = "handler" /\ err' = "ValueError"
          ELSE pc' = "download73" /\ err' = err
    /\ UNCHANGED <<dl, fetches, credCalls, apilog, notifications, exit_status,
                   page1, report_date, volumes, stvars, svars, xvars, rvars>>

\* lines 260-261, with download_pdf, lines 34-45
MainDownload73 ==
    /\ pc = "download73"
    /\ \E ok \in BOOLEAN :
          /\ fetches' = [fetches EXCEPT !.section73 = @ + 1]
          /\ dl' = [dl EXCEPT !.section73 = IF ok THEN "ok" ELSE "failed"]
          /\ pc' = AfterDownload(ok, "downloadSwaps")
          /\ err' = IF pc' = "handler" THEN "RuntimeError" ELSE err
    /\ UNCHANGED <<credCalls, apilog, notifications, exit_status,
                   page1, report_date, volumes, stvars, svars, xvars, rvars>>

\* lines 262-263, with download_pdf, lines 34-45
MainDownloadSwaps ==
    /\ pc = "downloadSwaps"
    /\ \E ok \in BOOLEAN :
          /\ fetches' = [fetches EXCEPT !.swaps = @ + 1]
          /\ dl' = [dl EXCEPT !.swaps = IF ok THEN "ok" ELSE "failed"]
          /\ pc' = AfterDownload(ok, "extract")
          /\ err' = IF pc' = "handler" THEN "RuntimeError" ELSE err
    /\ UNCHANGED <<credCalls, apilog, notifications, exit_status,
                   page1, report_date, volumes, stvars, svars, xvars, rvars>>

\* lines 267-268: the extractors never raise; what they return is checked
\* under SpecExtract
MainExtract ==
    /\ pc = "extract"
    /\ volumes' \in VolumePairs
    /\ pc' = "date"
    /\ UNCHANGED <<err, dl, fetches, credCalls, apilog, notifications, exit_status,
                   page1, report_date, stvars, svars, xvars, rvars>>

\* lines 271-288
MainResolveDate ==
    /\ pc = "date"
    /\ \E page \in FirstPages :
          LET r == ResolveDate(page)
          IN  /\ page1' = page
              /\ report_date' = r.date
              /\ err' = r.raised
              /\ pc' = IF r.raised = "none" THEN "write" ELSE "handler"
    /\ UNCHANGED <<dl, fetches, credCalls, apilog, notifications, exit_status,
                   volumes, stvars, svars, xvars, rvars>>

\* lines 292-295, with write_to_google_sheet; sys.exit inside
\* get_google_credentials raises SystemExit, which no "except Exception"
\* clause catches (lines 208-213, 302): the process ends there with status 1
MainWrite ==
    /\ pc = "write"
    /\ \E cred \in CredentialOutcomes, failAt \in FailPoints \ {"creds"} :
          LET r == write_to_google_sheet(store, report_date, volumes[1], volumes[2],
                                         IF cred = "invalid" THEN "creds" ELSE failAt)
          IN  /\ credCalls' = credCalls + 1
              /\ IF CallsSysExit(cred)
                 THEN /\ err' = "SystemExit"
                      /\ pc' = "exited"
                      /\ exit_status' = 1
                      /\ UNCHANGED <<store, apilog>>
                 ELSE /\ store' = r.store
                      /\ apilog' = r.log
                      /\ IF r.ok
                         THEN pc' = "exited" /\ exit_status' = 0 /\ err' = err
                         ELSE pc' = "handler" /\ err' = "RuntimeError"
                              /\ exit_status' = exit_status
    /\ UNCHANGED <<dl, fetches, notifications, page1, report_date, volumes,
                   store0, svars, xvars, rvars>>

\* lines 302-309, with send_failure_notification, lines 216-238: one POST,
\* whose failure is swallowed, then sys.exit(1)
MainHandler ==
    /\ pc = "handler"
    /\ \E posted \in {"sent", "failed"} : notifications' = Append(notifications, posted)
    /\ exit_status' = 1
    /\ pc' = "exited"
    /\ UNCHANGED <<err, dl, fetches, credCalls, apilog, page1, report_date,
                   volumes, stvars, svars, xvars, rvars>>

MainNext ==
    \/ MainStart
    \/ MainDownload73
    \/ MainDownloadSwaps
    \/ MainExtract
    \/ MainResolveDate
    \/ MainWrite
    \/ MainHandler

SpecMain == MainInit /\ [][MainNext]_vars

\* C3: every error of the pipeline, credentials errors included, ends the
\* process with one notification attempt and a non-zero status; a run
\* without error attempts none and exits 0.
C3_ErrorsNotifiedOnce ==
    /\ notifications # <<>> => err # "none"
    /\ pc = "exited" =>
          /\ err # "none" => Len(notifications) = 1 /\ exit_status # 0
          /\ err = "none" => notifications = <<>> /\ exit_status = 0

\* C4: a first page without extractable text, or without the date pattern,
\* makes the run fall back to the current date and go on to the write; it
\* raises nothing.
C4_SilentFallback ==
    page1.kind \in {"None", "empty", "nomatch"} =>
        /\ err # "TypeError"
        /\ report_date = Today
        /\ pc \in {"write", "handler", "exited"}

\* C9: each document is requested at most once; after a failed Section 73
\* download the Swaps document is not requested; after either failure no
\* credentials are resolved, no Sheets API call is issued and the store is
\* as it was.
C9_FetchFailureStopsRun ==
    /\ fetches.section73 <= 1
    /\ fetches.swaps <= 1
    /\ dl.section73 = "failed" => fetches.swaps = 0 /\ dl.swaps = "none"
    /\ (dl.section73 = "failed" \/ dl.swaps = "failed") =>
          /\ credCalls = 0
          /\ apilog = <<>>
          /\ store = store0
          /\ pc \in {"handler", "exited"}
          /\ pc = "exited" => exit_status = 1

\* the Swaps download failed after the Section 73 one succeeded, and the
\* process has ended
C9_Witness ==
    /\ pc = "exited"
    /\ dl = [section73 |-> "ok", swaps |-> "failed"]
    /\ fetches = [section73 |-> 1, swaps |-> 1]
    /\ Len(notifications) = 1
    /\ store0 # <<>>

====
